---- MODULE Spec2Model ----
(***************************************************************************)
(* A model of alist-cli-rs (src/src/main.rs): one run of `main`, from the  *)
(* command-line argument scan through the login round trip to the streamed *)
(* upload.  Strings are sequences of one-character strings, so that the    *)
(* string operations of the program (comparison, replace, lower-casing)    *)
(* are computed and not assumed.                                           *)
(***************************************************************************)
EXTENDS Integers, Sequences, FiniteSets, TLC

(***************************************************************************)
(* Bounds of the model.                                                    *)
(***************************************************************************)
\* Longest generic argument list after the program name.
MaxArgs == 7
\* Longest local file, in bytes.
MaxFileLen == 3
\* Largest chunk one read of the file stream returns, in bytes.
MaxChunk == 2

(***************************************************************************)
(* Strings.                                                                *)
(***************************************************************************)
\* An unset binding (a `let` not yet executed).
Unset == <<"<unset>">>

RECURSIVE SeqsUpTo(_, _)
\* All sequences over S of length 0..n.
SeqsUpTo(S, n) ==
    IF n = 0 THEN {<<>>}
    ELSE LET shorter == SeqsUpTo(S, n - 1)
         IN  shorter \cup {Append(s, x) : s \in {t \in shorter : Len(t) = n - 1}, x \in S}

\* s without its first n characters, Rust's &s[n..].
DropFirst(s, n) == SubSeq(s, n + 1, Len(s))

\* Rust's str::starts_with.
StartsWith(s, p) == Len(p) <= Len(s) /\ SubSeq(s, 1, Len(p)) = p

\* The characters of a literal, written out.
FlagUsername == <<"-", "-", "u", "s", "e", "r", "n", "a", "m", "e">>
FlagPassword == <<"-", "-", "p", "a", "s", "s", "w", "o", "r", "d">>
Success == <<"s", "u", "c", "c", "e", "s", "s">>

(***************************************************************************)
(* What the process writes and how it ends.  Every place where main can    *)
(* stop early is a failure point; Text gives the literal of its eprintln!  *)
(* or expect (the unwrap()s panic with the library's text).  A message is  *)
(* <<text, param>>: the literal and the value formatted into it (<<>> when *)
(* there is none).                                                         *)
(***************************************************************************)
ExitPoints ==
    {"usage", "no_username", "no_password", "no_local_file", "no_remote_path",
     "invalid_url", "no_token", "login_failed"}
PanicPoints ==
    {"username_value", "password_value", "login_send", "login_read", "deserialize",
     "header_token", "header_file_path", "file_open", "upload_send", "upload_read"}
FailPoints == ExitPoints \cup PanicPoints

Text(point) ==
    CASE point = "usage" -> "Usage: {} --username <username> --password <password> <local-file> <alist-url>"
      [] point = "no_username" -> "Error: --username flag is required"
      [] point = "username_value" -> "called Option::unwrap() on a None value"
      [] point = "no_password" -> "Error: --password flag is required"
      [] point = "password_value" -> "called Option::unwrap() on a None value"
      [] point = "no_local_file" -> "Error: Local file path is required"
      [] point = "no_remote_path" -> "Error: Remote path is required"
      [] point = "invalid_url" -> "Error: Invalid URL"
      [] point = "login_send" -> "Failed to send login request"
      [] point = "login_read" -> "Failed to parse login response"
      [] point = "deserialize" -> "Failed to deserialize response"
      [] point = "no_token" -> "Error: No token received in response data"
      [] point = "login_failed" -> "Login failed with message: {}"
      [] point = "header_token" -> "called Result::unwrap() on an Err value"
      [] point = "header_file_path" -> "called Result::unwrap() on an Err value"
      [] point = "file_open" -> "Failed to open file"
      [] point = "upload_send" -> "Failed to send upload request"
      [] point = "upload_read" -> "Failed to parse login response"

NoMsg == <<"", <<>>>>
UploadResponseMsg(text) == <<"Upload response: {:?}", text>>

\* process::exit(1) after an eprintln!, the runtime's 101 after a panic.
ExitStatus(point) == IF point \in PanicPoints THEN 101 ELSE 1

\* The number of arguments main accepts, the program name included.
ArgCount == 7

(***************************************************************************)
(* Argument scanning (main, lines 34-77).                                  *)
(***************************************************************************)
\* Iterator::find on args_iter standing before position `from`: the position
\* of the first element equal to `flag`, 0 for None (the iterator is then
\* exhausted).
Find(argv, from, flag) ==
    LET hits == {i \in from..Len(argv) : argv[i] = flag}
    IN  IF hits = {} THEN 0 ELSE CHOOSE i \in hits : \A j \in hits : i <= j

Stop(point, param) ==
    [kind |-> "fail", point |-> point, param |-> param, username |-> Unset,
     password |-> Unset, local_file |-> Unset, remote_path |-> Unset]

\* The whole scan: where it stops, or the four bindings when it reaches line 79.
ScanArgs(argv) ==
    IF Len(argv) # ArgCount THEN Stop("usage", argv[1])
    ELSE LET u == Find(argv, 2, FlagUsername)
         IN  IF u = 0 THEN Stop("no_username", <<>>)
             ELSE IF u + 1 > Len(argv) THEN Stop("username_value", <<>>)
             ELSE LET p == Find(argv, u + 2, FlagPassword)
                  IN  IF p = 0 THEN Stop("no_password", <<>>)
                      ELSE IF p + 1 > Len(argv) THEN Stop("password_value", <<>>)
                      ELSE IF p + 2 > Len(argv) THEN Stop("no_local_file", <<>>)
                      ELSE IF p + 3 > Len(argv) THEN Stop("no_remote_path", <<>>)
                      ELSE [kind |-> "ok", point |-> "", param |-> <<>>,
                            username |-> argv[u + 1], password |-> argv[p + 1],
                            local_file |-> argv[p + 2], remote_path |-> argv[p + 3]]

(***************************************************************************)
(* Url::parse and the slice [..Position::BeforePath] (main, lines 79-85).  *)
(* The url crate is modelled for what the destinations below exercise:     *)
(* a scheme, the authority slashes, a host and an optional decimal port,   *)
(* with the scheme and host lower-cased and a default port dropped in the  *)
(* serialisation; tabs and newlines are dropped from the input before it  *)
(* is parsed.  No destination carries userinfo.                           *)
(***************************************************************************)
UpperChars ==
    <<"A", "B", "C", "D", "E", "F", "G", "H", "I", "J", "K", "L", "M",
      "N", "O", "P", "Q", "R", "S", "T", "U", "V", "W", "X", "Y", "Z">>
LowerChars ==
    <<"a", "b", "c", "d", "e", "f", "g", "h", "i", "j", "k", "l", "m",
      "n", "o", "p", "q", "r", "s", "t", "u", "v", "w", "x", "y", "z">>
Digits == <<"0", "1", "2", "3", "4", "5", "6", "7", "8", "9">>

IsUpper(c) == \E i \in DOMAIN UpperChars : UpperChars[i] = c
IsLower(c) == \E i \in DOMAIN LowerChars : LowerChars[i] = c
IsDigit(c) == \E i \in DOMAIN Digits : Digits[i] = c
ToLowerChar(c) ==
    IF IsUpper(c) THEN LowerChars[CHOOSE i \in DOMAIN UpperChars : UpperChars[i] = c] ELSE c
ToLower(s) == [i \in 1..Len(s) |-> ToLowerChar(s[i])]
DigitVal(c) == (CHOOSE i \in DOMAIN Digits : Digits[i] = c) - 1

RECURSIVE ToNat(_)
\* The value of a string of decimal digits.
ToNat(s) ==
    IF s = <<>> THEN 0
    ELSE 10 * ToNat(SubSeq(s, 1, Len(s) - 1)) + DigitVal(s[Len(s)])

RECURSIVE ToDigits(_)
\* The decimal digits of a natural number.
ToDigits(n) ==
    IF n < 10 THEN <<Digits[n + 1]>>
    ELSE Append(ToDigits(n \div 10), Digits[(n % 10) + 1])

\* The first position of s holding a character of `set`, 0 when there is none.
IndexOf(s, set) ==
    LET hits == {i \in 1..Len(s) : s[i] \in set}
    IN  IF hits = {} THEN 0 ELSE CHOOSE i \in hits : \A j \in hits : i <= j

\* The last position of s holding a character of `set`, 0 when there is none.
LastIndexOf(s, set) ==
    LET hits == {i \in 1..Len(s) : s[i] \in set}
    IN  IF hits = {} THEN 0 ELSE CHOOSE i \in hits : \A j \in hits : i >= j

RECURSIVE SkipSlashes(_)
\* The special-authority-slashes states: every leading slash is skipped.
SkipSlashes(s) ==
    IF s # <<>> /\ s[1] \in {"/", "\\"} THEN SkipSlashes(Tail(s)) ELSE s

\* The largest port number (u16).
PortMax == 65535
\* The largest login response code (code: u16).
U16Max == 65535

\* The port a special scheme drops from the serialisation, -1 for none.
DefaultPort(scheme) ==
    IF scheme = <<"h", "t", "t", "p">> THEN 80
    ELSE IF scheme = <<"h", "t", "t", "p", "s">> THEN 443
    ELSE 0 - 1

UrlErr == [ok |-> FALSE, base |-> Unset]

\* The parser's first step: ASCII tab and newline are removed from the input.
StripTabNl(s) == SelectSeq(s, LAMBDA c : c \notin {"\t", "\n", "\r"})

\* host[:port] of a URL whose scheme is `scheme`; `special` lower-cases the
\* host and ends the authority at a backslash too.
ParseAuthority(scheme, rest, special) ==
    LET ends == IF special THEN {"/", "\\", "?", "#"} ELSE {"/", "?", "#"}
        e == IndexOf(rest, ends)
        auth == IF e = 0 THEN rest ELSE SubSeq(rest, 1, e - 1)
        c == LastIndexOf(auth, {":"})
        hostpart == IF c = 0 THEN auth ELSE SubSeq(auth, 1, c - 1)
        portpart == IF c = 0 THEN <<>> ELSE DropFirst(auth, c)
        host == IF special THEN ToLower(hostpart) ELSE hostpart
        origin == scheme \o <<":", "/", "/">> \o host
    IN  IF hostpart = <<>> /\ special THEN UrlErr
        ELSE IF \E i \in 1..Len(portpart) : ~IsDigit(portpart[i]) THEN UrlErr
        ELSE IF portpart = <<>> THEN [ok |-> TRUE, base |-> origin]
        ELSE IF ToNat(portpart) > PortMax THEN UrlErr
        ELSE IF ToNat(portpart) = DefaultPort(scheme) THEN [ok |-> TRUE, base |-> origin]
        ELSE [ok |-> TRUE, base |-> origin \o <<":">> \o ToDigits(ToNat(portpart))]

\* Url::parse(input) and, when it is Ok, parsed_url[..BeforePath].to_string().
ParseUrl(input) ==
    LET clean == StripTabNl(input)
        colon == IndexOf(clean, {":"})
        raw == SubSeq(clean, 1, colon - 1)
        scheme == ToLower(raw)
        rest == DropFirst(clean, colon)
        special == DefaultPort(scheme) >= 0
    IN  IF colon <= 1 THEN UrlErr
        ELSE IF ~(IsUpper(raw[1]) \/ IsLower(raw[1])) THEN UrlErr
        ELSE IF \E i \in 1..Len(raw) :
                    ~(IsUpper(raw[i]) \/ IsLower(raw[i]) \/ IsDigit(raw[i])
                      \/ raw[i] \in {"+", "-", "."}) THEN UrlErr
        ELSE IF special THEN ParseAuthority(scheme, SkipSlashes(rest), TRUE)
        ELSE IF StartsWith(rest, <<"/", "/">>) THEN ParseAuthority(scheme, DropFirst(rest, 2), FALSE)
        ELSE [ok |-> TRUE, base |-> Append(scheme, ":")]

RECURSIVE Replace(_, _)
\* str::replace(s, pat, ""): every non-overlapping match of pat, scanning
\* from the left, is removed.  pat is never empty here.
Replace(s, pat) ==
    IF Len(s) < Len(pat) THEN s
    ELSE IF StartsWith(s, pat) THEN Replace(DropFirst(s, Len(pat)), pat)
    ELSE <<s[1]>> \o Replace(Tail(s), pat)

(***************************************************************************)
(* The login response (LoginResponse, LoginData; main, lines 100-120).     *)
(* A response text is either not JSON or a JSON object with the keys code, *)
(* message and data, each of which may be absent.                          *)
(***************************************************************************)
JAbsent == [t |-> "absent", n |-> 0, s |-> <<>>]
JNull == [t |-> "null", n |-> 0, s |-> <<>>]
JNum(n) == [t |-> "num", n |-> n, s |-> <<>>]
JStr(s) == [t |-> "str", n |-> 0, s |-> s]
DAbsent == [t |-> "absent", token |-> JAbsent]
DNull == [t |-> "null", token |-> JAbsent]
DObj(token) == [t |-> "obj", token |-> token]
NotJson == [json |-> FALSE, code |-> JAbsent, message |-> JAbsent, data |-> DAbsent]
JBody(code, message, data) == [json |-> TRUE, code |-> code, message |-> message, data |-> data]

DeErr == [ok |-> FALSE, message |-> Unset, some |-> FALSE, token |-> Unset]

\* Deserialize as it would be with `code: Option<u16>`: a response without
\* code is accepted.
Deserialize_CodeOptional(text) ==
    IF ~text.json THEN DeErr
    ELSE IF ~(text.code.t \in {"absent", "null"}
              \/ (text.code.t = "num" /\ text.code.n \in 0..U16Max)) THEN DeErr
    ELSE IF text.message.t # "str" THEN DeErr
    ELSE IF text.data.t \in {"absent", "null"}
         THEN [ok |-> TRUE, message |-> text.message.s, some |-> FALSE, token |-> Unset]
    ELSE IF text.data.token.t # "str" THEN DeErr
    ELSE [ok |-> TRUE, message |-> text.message.s, some |-> TRUE, token |-> text.data.token.s]

\* serde_json::from_str::<LoginResponse>: code must be a number that fits
\* u16 and message a string; data may be absent or null (None), and when it
\* is an object its token must be a string.
Deserialize(text) ==
    IF ~text.json THEN DeErr
    ELSE IF ~(text.code.t = "num" /\ text.code.n \in 0..U16Max) THEN DeErr
    ELSE IF text.message.t # "str" THEN DeErr
    ELSE IF text.data.t \in {"absent", "null"}
         THEN [ok |-> TRUE, message |-> text.message.s, some |-> FALSE, token |-> Unset]
    ELSE IF text.data.token.t # "str" THEN DeErr
    ELSE [ok |-> TRUE, message |-> text.message.s, some |-> TRUE, token |-> text.data.token.s]

\* HeaderValue::from_str: a control character other than a tab is refused.
HeaderValueOk(s) == \A i \in 1..Len(s) : s[i] \notin {"\n", "\r"}

(***************************************************************************)
(* The inputs of a run.                                                    *)
(***************************************************************************)
Prog == <<"p">>
ArgWords == {FlagUsername, FlagPassword, <<"a">>}
Http == <<"h", "t", "t", "p">>
Host == <<"h", "o", "s", "t">>
Port5244 == <<":", "5", "2", "4", "4">>
Schemes == {Http, <<"H", "T", "T", "P">>}
Hosts == {Host, <<"H", "o", "s", "t">>}
Ports == {<<>>, <<":", "8", "0">>, Port5244}
ReportPath ==
    <<"/", "d", "a", "v", "/", "d", "o", "c", "s", "/",
      "r", "e", "p", "o", "r", "t", ".", "p", "d", "f">>
Paths ==
    {<<>>, <<"/", "a">>, ReportPath,
     <<"/", "a", "/">> \o Http \o <<":", "/", "/">> \o Host \o Port5244 \o <<"/", "b">>}
Destinations ==
    {sc \o <<":", "/", "/">> \o h \o po \o pa :
        sc \in Schemes, h \in Hosts, po \in Ports, pa \in Paths}
    \cup {Http \o <<":", "/", "/">>,
          Http \o <<":", "/", "/">> \o Host \o <<"/", "a", "\n", "b">>,
          Http \o <<":", "/", "/">> \o Host \o <<":", "9", "9", "9", "9", "9", "/", "a">>}
ArgLists ==
    {<<Prog>> \o s : s \in SeqsUpTo(ArgWords, MaxArgs)}
    \cup {<<Prog, FlagUsername, <<"u">>, FlagPassword, <<"w">>, <<"f">>, d>> : d \in Destinations}

Fail == <<"f", "a", "i", "l">>
Tokens == {<<>>, <<"a", "b", "c">>, <<"T", "1">>, <<"\n">>}
Codes == {JAbsent, JNum(200), JNum(U16Max + 1), JStr(<<"2", "0", "0">>)}
Messages == {JAbsent, JNull, JStr(Success), JStr(Fail)}
Datas == {DAbsent, DNull, DObj(JAbsent), DObj(JNull)} \cup {DObj(JStr(t)) : t \in Tokens}
LoginTexts == {NotJson} \cup {JBody(c, m, d) : c \in Codes, m \in Messages, d \in Datas}
\* Bytes of a local file.
Bytes == {0, 1}
Contents == SeqsUpTo(Bytes, MaxFileLen)
UploadTexts == {<<"o", "k">>}

(***************************************************************************)
(* The state of a run of main.                                             *)
(***************************************************************************)
VARIABLES
    pc,               \* the statement main stands before
    args,             \* env::args()
    username, password, local_file, remote_path,    \* lines 47-77
    base_url,         \* line 79
    login_text,       \* text_response, line 100
    parsed_response,  \* line 105
    token,            \* line 108
    remote_file_path, \* line 123
    headers,          \* line 125
    file,             \* the contents of the file opened at line 129
    filePos,          \* how much of it the stream has read
    yielded,          \* the chunks the file stream has yielded, in order
    inflight,         \* the chunk the stream yielded and the transport holds
    body,             \* the chunks the transport has sent
    exitStatus,       \* the process's exit status, -1 while it runs
    stderr, stdout,   \* the message written on each
    failPoint,        \* where main stopped early
    events            \* what the process did to the outside, in order

vars ==
    <<pc, args, username, password, local_file, remote_path, base_url, login_text,
      parsed_response, token, remote_file_path, headers, file, filePos, yielded, inflight,
      body, exitStatus, stderr, stdout, failPoint, events>>

NoHeaders == [authorization |-> Unset, file_path |-> Unset]

Init ==
    /\ pc = "scan_args"
    /\ args \in ArgLists
    /\ username = Unset /\ password = Unset
    /\ local_file = Unset /\ remote_path = Unset
    /\ base_url = Unset
    /\ login_text = NotJson
    /\ parsed_response = DeErr
    /\ token = Unset
    /\ remote_file_path = Unset
    /\ headers = NoHeaders
    /\ file = <<>> /\ filePos = 0 /\ yielded = <<>> /\ inflight = <<>> /\ body = <<>>
    /\ exitStatus = 0 - 1
    /\ stderr = NoMsg /\ stdout = NoMsg
    /\ failPoint = ""
    /\ events = <<>>

\* main stops at a failure point, after doing `done` in the same statement:
\* the message goes to stderr and the process ends (process::exit(1), or the
\* panic unwinding out of main).
Terminate(point, param, done) ==
    /\ pc' = "exited"
    /\ failPoint' = point
    /\ stderr' = <<Text(point), param>>
    /\ exitStatus' = ExitStatus(point)
    /\ events' = events \o done \o <<"fail">>

\* main goes on to the statement `next`, having done `done`.
Goto(next, done) ==
    /\ pc' = next
    /\ events' = events \o done
    /\ UNCHANGED <<failPoint, stderr, exitStatus>>

\* Lines 34-77: the argument scan.
ScanArguments ==
    /\ pc = "scan_args"
    /\ LET r == ScanArgs(args)
       IN  /\ username' = r.username
           /\ password' = r.password
           /\ local_file' = r.local_file
           /\ remote_path' = r.remote_path
           /\ IF r.kind = "ok" THEN Goto("parse_url", <<>>)
              ELSE Terminate(r.point, r.param, <<>>)
    /\ UNCHANGED <<args, base_url, login_text, parsed_response, token, remote_file_path,
                   headers, file, filePos, yielded, inflight, body, stdout>>

\* Lines 79-85: the base of the destination.
ParseDestination ==
    /\ pc = "parse_url"
    /\ LET r == ParseUrl(remote_path)
       IN  /\ base_url' = r.base
           /\ IF r.ok THEN Goto("send_login", <<>>)
              ELSE Terminate("invalid_url", <<>>, <<>>)
    /\ UNCHANGED <<args, username, password, local_file, remote_path, login_text,
                   parsed_response, token, remote_file_path, headers, file, filePos,
                   yielded, inflight, body, stdout>>

\* SendLogin with one retry after a transport failure.
SendLogin_Retry ==
    /\ pc = "send_login"
    /\ \/ Goto("read_login", <<"login_request">>)
       \/ /\ events = <<>>
          /\ Goto("send_login", <<"login_request">>)
       \/ Terminate("login_send", <<>>, <<"login_request">>)
    /\ UNCHANGED <<args, username, password, local_file, remote_path, base_url,
                   login_text, parsed_response, token, remote_file_path, headers,
                   file, filePos, yielded, inflight, body, stdout>>

\* Lines 88-98: the login POST is sent; the transport may fail.
SendLogin ==
    /\ pc = "send_login"
    /\ \/ Goto("read_login", <<"login_request">>)
       \/ Terminate("login_send", <<>>, <<"login_request">>)
    /\ UNCHANGED <<args, username, password, local_file, remote_path, base_url,
                   login_text, parsed_response, token, remote_file_path, headers,
                   file, filePos, yielded, inflight, body, stdout>>

\* Lines 100-103: the login response's text is read; the transport may fail.
ReadLoginText ==
    /\ pc = "read_login"
    /\ \/ \E t \in LoginTexts :
            /\ login_text' = t
            /\ Goto("deserialize", <<"login_response">>)
       \/ /\ Terminate("login_read", <<>>, <<>>)
          /\ UNCHANGED login_text
    /\ UNCHANGED <<args, username, password, local_file, remote_path, base_url,
                   parsed_response, token, remote_file_path, headers, file, filePos,
                   yielded, inflight, body, stdout>>

\* Lines 105-106: the text is deserialized.
DeserializeLogin ==
    /\ pc = "deserialize"
    /\ LET r == Deserialize(login_text)
       IN  /\ parsed_response' = r
           /\ IF r.ok THEN Goto("check_login", <<>>)
              ELSE Terminate("deserialize", <<>>, <<>>)
    /\ UNCHANGED <<args, username, password, local_file, remote_path, base_url,
                   login_text, token, remote_file_path, headers, file, filePos,
                   yielded, inflight, body, stdout>>

\* CheckLogin with the data taken by unwrap_or_default: a success message
\* without data goes on with an empty token.
CheckLogin_NoDataCheck ==
    /\ pc = "check_login"
    /\ IF parsed_response.message = Success
       THEN /\ token' = IF parsed_response.some THEN parsed_response.token ELSE <<>>
            /\ Goto("build_headers", <<"login_accepted">>)
       ELSE /\ Terminate("login_failed", parsed_response.message, <<>>)
            /\ UNCHANGED token
    /\ UNCHANGED <<args, username, password, local_file, remote_path, base_url,
                   login_text, parsed_response, remote_file_path, headers, file,
                   filePos, yielded, inflight, body, stdout>>

\* CheckLogin without the test of the message: any response with data goes on.
CheckLogin_AnyMessage ==
    /\ pc = "check_login"
    /\ IF parsed_response.some
       THEN /\ token' = parsed_response.token
            /\ Goto("build_headers", <<"login_accepted">>)
       ELSE /\ Terminate("no_token", <<>>, <<>>)
            /\ UNCHANGED token
    /\ UNCHANGED <<args, username, password, local_file, remote_path, base_url,
                   login_text, parsed_response, remote_file_path, headers, file,
                   filePos, yielded, inflight, body, stdout>>

\* Lines 108-120: the token is taken from an accepted response.
CheckLogin ==
    /\ pc = "check_login"
    /\ IF parsed_response.message = Success
       THEN IF parsed_response.some
            THEN /\ token' = parsed_response.token
                 /\ Goto("build_headers", <<"login_accepted">>)
            ELSE /\ Terminate("no_token", <<>>, <<>>)
                 /\ UNCHANGED token
       ELSE /\ Terminate("login_failed", parsed_response.message, <<>>)
            /\ UNCHANGED token
    /\ UNCHANGED <<args, username, password, local_file, remote_path, base_url,
                   login_text, parsed_response, remote_file_path, headers, file,
                   filePos, yielded, inflight, body, stdout>>

\* Lines 123-127: the remote file path and the two headers.
BuildHeaders ==
    /\ pc = "build_headers"
    /\ remote_file_path' = Replace(remote_path, base_url)
    /\ IF ~HeaderValueOk(token)
       THEN /\ Terminate("header_token", <<>>, <<>>)
            /\ UNCHANGED headers
       ELSE IF ~HeaderValueOk(remote_file_path')
       THEN /\ Terminate("header_file_path", <<>>, <<>>)
            /\ headers' = [headers EXCEPT !.authorization = token]
       ELSE /\ Goto("open_file", <<>>)
            /\ headers' = [authorization |-> token, file_path |-> remote_file_path']
    /\ UNCHANGED <<args, username, password, local_file, remote_path, base_url,
                   login_text, parsed_response, token, file, filePos, yielded,
                   inflight, body, stdout>>

\* OpenFile with the file opened lazily, once the PUT has been started.
OpenFile_AfterRequest ==
    /\ pc = "open_file"
    /\ \/ \E c \in Contents :
            /\ file' = c
            /\ Goto("streaming", <<"upload_request", "file_open">>)
       \/ /\ Terminate("file_open", <<>>, <<"upload_request">>)
          /\ UNCHANGED file
    /\ UNCHANGED <<args, username, password, local_file, remote_path, base_url,
                   login_text, parsed_response, token, remote_file_path, headers,
                   filePos, yielded, inflight, body, stdout>>

\* Line 129: the local file is opened; it may not exist or not be readable.
OpenFile ==
    /\ pc = "open_file"
    /\ \/ \E c \in Contents :
            /\ file' = c
            /\ Goto("send_upload", <<"file_open">>)
       \/ /\ Terminate("file_open", <<>>, <<>>)
          /\ UNCHANGED file
    /\ UNCHANGED <<args, username, password, local_file, remote_path, base_url,
                   login_text, parsed_response, token, remote_file_path, headers,
                   filePos, yielded, inflight, body, stdout>>

\* Lines 131-140: the upload PUT is sent with the file stream as its body;
\* the transport may fail before any of the body is asked for.
SendUpload ==
    /\ pc = "send_upload"
    /\ \/ Goto("streaming", <<"upload_request">>)
       \/ Terminate("upload_send", <<>>, <<"upload_request">>)
    /\ UNCHANGED <<args, username, password, local_file, remote_path, base_url,
                   login_text, parsed_response, token, remote_file_path, headers,
                   file, filePos, yielded, inflight, body, stdout>>

\* Lines 131-132: the transport polls the stream (FramedRead with BytesCodec):
\* it yields the next chunk of the file, ends at the end of the file, or
\* yields the read's error, which fails the request.
PollChunk ==
    /\ pc = "streaming"
    /\ inflight = <<>>
    /\ \/ \E n \in 1..MaxChunk :
            /\ filePos + n <= Len(file)
            /\ filePos' = filePos + n
            /\ yielded' = Append(yielded, SubSeq(file, filePos + 1, filePos + n))
            /\ inflight' = <<SubSeq(file, filePos + 1, filePos + n)>>
            /\ Goto("streaming", <<"file_read">>)
       \/ /\ filePos = Len(file)
          /\ Goto("await_response", <<>>)
          /\ UNCHANGED <<filePos, yielded, inflight>>
       \/ /\ Terminate("upload_send", <<>>, <<"read_error">>)
          /\ UNCHANGED <<filePos, yielded, inflight>>
    /\ UNCHANGED <<args, username, password, local_file, remote_path, base_url,
                   login_text, parsed_response, token, remote_file_path, headers,
                   file, body, stdout>>

\* ForwardChunk losing the chunk it was handed.
ForwardChunk_Drop ==
    /\ pc = "streaming"
    /\ inflight # <<>>
    /\ \/ /\ inflight' = <<>>
          /\ Goto("streaming", <<"chunk_sent">>)
          /\ UNCHANGED body
       \/ /\ Terminate("upload_send", <<>>, <<>>)
          /\ UNCHANGED <<body, inflight>>
    /\ UNCHANGED <<args, username, password, local_file, remote_path, base_url,
                   login_text, parsed_response, token, remote_file_path, headers,
                   file, filePos, yielded, stdout>>

\* Lines 134-140: the transport sends the chunk it was handed (Body::wrap_stream),
\* or fails.
ForwardChunk ==
    /\ pc = "streaming"
    /\ inflight # <<>>
    /\ \/ /\ body' = Append(body, inflight[1])
          /\ inflight' = <<>>
          /\ Goto("streaming", <<"chunk_sent">>)
       \/ /\ Terminate("upload_send", <<>>, <<>>)
          /\ UNCHANGED <<body, inflight>>
    /\ UNCHANGED <<args, username, password, local_file, remote_path, base_url,
                   login_text, parsed_response, token, remote_file_path, headers,
                   file, filePos, yielded, stdout>>

\* Lines 140-142: the body has ended and send() resolves with the response,
\* or with the transport's failure.
AwaitUploadResponse ==
    /\ pc = "await_response"
    /\ \/ Goto("read_upload", <<"upload_response">>)
       \/ Terminate("upload_send", <<>>, <<>>)
    /\ UNCHANGED <<args, username, password, local_file, remote_path, base_url,
                   login_text, parsed_response, token, remote_file_path, headers,
                   file, filePos, yielded, inflight, body, stdout>>

\* Lines 144-149: the upload response's text is read and printed.
ReadUploadText ==
    /\ pc = "read_upload"
    /\ \/ \E t \in UploadTexts :
            /\ stdout' = UploadResponseMsg(t)
            /\ pc' = "exited"
            /\ exitStatus' = 0
            /\ events' = Append(events, "done")
            /\ UNCHANGED <<failPoint, stderr>>
       \/ /\ Terminate("upload_read", <<>>, <<>>)
          /\ UNCHANGED stdout
    /\ UNCHANGED <<args, username, password, local_file, remote_path, base_url,
                   login_text, parsed_response, token, remote_file_path, headers,
                   file, filePos, yielded, inflight, body>>

Next ==
    \/ ScanArguments
    \/ ParseDestination
    \/ SendLogin
    \/ ReadLoginText
    \/ DeserializeLogin
    \/ CheckLogin
    \/ BuildHeaders
    \/ OpenFile
    \/ SendUpload
    \/ PollChunk
    \/ ForwardChunk
    \/ AwaitUploadResponse
    \/ ReadUploadText

Spec == Init /\ [][Next]_vars

(***************************************************************************)
(* Vocabulary of the properties.                                           *)
(***************************************************************************)
Count(e) == Cardinality({i \in DOMAIN events : events[i] = e})
Happened(e) == \E i \in DOMAIN events : events[i] = e
\* Every occurrence of `later` has an occurrence of `earlier` before it.
Precedes(earlier, later) ==
    \A i \in DOMAIN events :
        events[i] = later => \E j \in 1..(i - 1) : events[j] = earlier

RECURSIVE Flatten(_)
\* The bytes of a sequence of chunks.
Flatten(chunks) ==
    IF chunks = <<>> THEN <<>> ELSE chunks[1] \o Flatten(Tail(chunks))

ScanFailPoints ==
    {"usage", "no_username", "username_value", "no_password", "password_value",
     "no_local_file", "no_remote_path"}
LoginFailPoints == {"login_send", "login_read", "deserialize", "no_token", "login_failed"}
\* The failure points of the error kinds: MalformedUrl, TransportFailure (login
\* and upload), ProtocolFailure, AuthRejected, FileOpenFailure.
KindFailPoints ==
    {"invalid_url", "login_send", "login_read", "deserialize", "no_token",
     "login_failed", "file_open", "upload_send", "upload_read"}
\* The login response has been read and main has dealt with it.
LoginDecided == Happened("login_response") /\ pc \notin {"deserialize", "check_login"}
LoginOutcome ==
    IF failPoint = "deserialize" THEN "ProtocolFailure"
    ELSE IF failPoint \in {"no_token", "login_failed"} THEN "AuthRejected"
    ELSE IF failPoint \in {"login_send", "login_read"} THEN "TransportFailure"
    ELSE IF Happened("login_accepted") THEN "Token"
    ELSE "Pending"
Abc == <<"a", "b", "c">>

(***************************************************************************)
(* C1                                                                      *)
(***************************************************************************)
\* C1: the upload request is sent only after the login request was answered
\* and the answer yielded the token (message "success", data present); a run
\* whose login step failed has ended and has sent no upload request.
C1_UploadOnlyAfterLogin ==
    /\ Happened("upload_request") =>
          /\ Precedes("login_request", "login_response")
          /\ Precedes("login_response", "login_accepted")
          /\ Precedes("login_accepted", "upload_request")
          /\ parsed_response.ok
          /\ parsed_response.message = Success
          /\ parsed_response.some
          /\ token = parsed_response.token
          /\ headers.authorization = token
    /\ failPoint \in LoginFailPoints =>
          /\ pc = "exited"
          /\ ~Happened("upload_request")

\* C1 witness: an upload request on the wire, carrying the token T1.
C1_Witness ==
    /\ Happened("upload_request")
    /\ token = <<"T", "1">>
    /\ headers.authorization = <<"T", "1">>

(***************************************************************************)
(* C2                                                                      *)
(***************************************************************************)
\* C2 as stated: the bodies {"message":"success","data":{"token":"abc"}} and
\* {"message":"fail"}, which carry no code, yield the token abc and AuthRejected;
\* a body that is not JSON yields ProtocolFailure.
C2_AsStated ==
    LoginDecided =>
        /\ login_text = JBody(JAbsent, JStr(Success), DObj(JStr(Abc))) =>
              LoginOutcome = "Token" /\ token = Abc
        /\ login_text = JBody(JAbsent, JStr(Fail), DAbsent) =>
              LoginOutcome = "AuthRejected"
        /\ login_text = NotJson => LoginOutcome = "ProtocolFailure"

\* C2 amended: with a code that fits u16 the success body yields the token abc
\* and the fail body AuthRejected with the 'Login failed with message' text; a
\* body without code, like a body that is not JSON, yields ProtocolFailure.
C2_LoginClassification ==
    LoginDecided =>
        /\ login_text = JBody(JNum(200), JStr(Success), DObj(JStr(Abc))) =>
              LoginOutcome = "Token" /\ token = Abc
        /\ login_text = JBody(JNum(200), JStr(Fail), DAbsent) =>
              /\ LoginOutcome = "AuthRejected"
              /\ stderr = <<Text("login_failed"), Fail>>
        /\ login_text \in {JBody(JAbsent, JStr(Success), DObj(JStr(Abc))),
                           JBody(JAbsent, JStr(Fail), DAbsent), NotJson} =>
              /\ LoginOutcome = "ProtocolFailure"
              /\ stderr = <<Text("deserialize"), <<>>>>

\* C2 witness: the success body with a code has been accepted with token abc.
C2_Witness ==
    /\ LoginDecided
    /\ login_text = JBody(JNum(200), JStr(Success), DObj(JStr(Abc)))
    /\ token = Abc

(***************************************************************************)
(* C3                                                                      *)
(***************************************************************************)
\* C3: a parsed login response is accepted (the run goes on to the upload step)
\* exactly when its message is "success", its data is present and the token is
\* not empty; after any other parsed response no upload request is sent.
C3_AcceptedIffNonEmptyToken ==
    (LoginDecided /\ parsed_response.ok) =>
        LET good == /\ parsed_response.message = Success
                    /\ parsed_response.some
                    /\ parsed_response.token # <<>>
        IN  /\ Happened("login_accepted") <=> good
            /\ ~good => ~Happened("upload_request")

(***************************************************************************)
(* C4                                                                      *)
(***************************************************************************)
\* The length of the scheme+host+port prefix of a destination as it was typed:
\* up to the first slash after the authority slashes.
TypedBaseLen(url) ==
    LET colon == IndexOf(url, {":"})
        auth == SkipSlashes(DropFirst(url, colon))
        slash == IndexOf(auth, {"/"})
    IN  IF slash = 0 THEN Len(url) ELSE Len(url) - Len(auth) + slash - 1

\* C4: once derived, remote_file_path is the destination as typed without its
\* leading scheme+host+port, and it begins with a slash.
C4_RemotePathIsUrlMinusBase ==
    remote_file_path # Unset =>
        /\ remote_file_path = DropFirst(remote_path, TypedBaseLen(remote_path))
        /\ remote_file_path # <<>>
        /\ remote_file_path[1] = "/"

(***************************************************************************)
(* C5                                                                      *)
(***************************************************************************)
\* C5 as stated: when the file open fails, no HTTP request has been sent.
C5_AsStated ==
    failPoint = "file_open" =>
        ~Happened("login_request") /\ ~Happened("upload_request")

\* C5 amended: when the file open fails the run ends with the file-open
\* failure and no upload request has been sent; the one request sent is the
\* login POST, whose response was accepted before the open was tried.
C5_OpenFailureSendsNoUpload ==
    failPoint = "file_open" =>
        /\ pc = "exited"
        /\ exitStatus = 101
        /\ stderr = <<Text("file_open"), <<>>>>
        /\ ~Happened("upload_request")
        /\ ~Happened("file_read")
        /\ Count("login_request") = 1
        /\ Happened("login_accepted")

\* C5 witness: a run that ended at the failed open.
C5_Witness == failPoint = "file_open" /\ pc = "exited"

(***************************************************************************)
(* C6                                                                      *)
(***************************************************************************)
\* C6: at most one login request and one upload request are sent; a run that
\* succeeds sent one of each, the login first; a failure is the last thing a
\* run does.
C6_OneLoginOneUploadFailFast ==
    /\ Count("login_request") <= 1
    /\ Count("upload_request") <= 1
    /\ exitStatus = 0 =>
          /\ Count("login_request") = 1
          /\ Count("upload_request") = 1
          /\ Precedes("login_request", "upload_request")
    /\ \A i \in DOMAIN events :
          events[i] = "fail" => i = Len(events) /\ pc = "exited" /\ exitStatus > 0
    /\ failPoint # "" => Happened("fail")

\* C6 witness: a run that succeeded.
C6_Witness == exitStatus = 0 /\ Happened("done")

(***************************************************************************)
(* C7                                                                      *)
(***************************************************************************)
\* C7: the text a run writes when it fails at one of the failure points of the
\* error kinds is the text of no other of these points.
C7_MessagesDistinct ==
    (pc = "exited" /\ failPoint \in KindFailPoints) =>
        \A q \in KindFailPoints \ {failPoint} : Text(q) # stderr[1]

C9_FileOpenAfterLogin ==
    /\ Happened("file_open") =>
          /\ Precedes("login_response", "login_accepted")
          /\ Precedes("login_accepted", "file_open")
          /\ parsed_response.ok
          /\ parsed_response.message = Success
          /\ parsed_response.some
    /\ failPoint \in LoginFailPoints => ~Happened("file_open")
    /\ pc \in {"send_login", "read_login", "deserialize", "check_login"} =>
          ~Happened("file_open")

\* C9 witness: the file is open, after an accepted login.
C9_Witness == Happened("file_open") /\ pc = "send_upload"

(***************************************************************************)
(* C10                                                                     *)
(***************************************************************************)
\* C10: the scan goes on to the core exactly for a list of 7 elements of the
\* shape prog --username u --password p file url, with the four values bound
\* from it; every other list ends the run at once with an error message and a
\* non-zero status, and without a panic.
C10_ArgumentValidation ==
    pc # "scan_args" =>
        IF Len(args) = ArgCount /\ args[2] = FlagUsername /\ args[4] = FlagPassword
        THEN /\ failPoint \notin ScanFailPoints
             /\ username = args[3]
             /\ password = args[5]
             /\ local_file = args[6]
             /\ remote_path = args[7]
        ELSE /\ pc = "exited"
             /\ failPoint \in ScanFailPoints
             /\ failPoint \notin PanicPoints
             /\ exitStatus > 0
             /\ stderr # NoMsg
             /\ events = <<"fail">>

====
